---- MODULE Spec2Model ----
(***************************************************************************)
(* Utf16FromUtf8 (UnicodeConv.hpp): conversion of a UTF-8 std::string to a *)
(* UTF-16 std::wstring through two calls of the Win32 primitive            *)
(* MultiByteToWideChar (measure, then fill), with the error reporting of   *)
(* the function.  One action per statement group of the function, for each *)
(* thread that runs it.                                                    *)
(*                                                                         *)
(* The primitive is not code of the repository: it is modelled by its      *)
(* documented behaviour for the arguments the function can hand it         *)
(* (CP_UTF8, no flag or MB_ERR_INVALID_CHARS, Windows Vista and later).    *)
(* Memory allocation (std::wstring::resize, the exception objects) is      *)
(* taken to succeed.                                                       *)
(***************************************************************************)
EXTENDS Integers, Sequences, FiniteSets, TLC

(***************************************************************************)
(* Bounds of the model.                                                    *)
(***************************************************************************)
\* longest input made of arbitrary bytes of Alphabet (specification Spec)
MaxLen == 4
\* longest input of the repeated-call specification SpecRepeat
MaxRepeatLen == 2
\* longest input of the two-thread specification SpecConc
MaxConcLen == 2

(***************************************************************************)
(* Program and platform constants.                                         *)
(***************************************************************************)
\* (std::numeric_limits<int>::max)() with the 32-bit int of the Win32 ABI
INT_MAX == 2147483647
\* flag of MultiByteToWideChar: fail on an invalid input character
MB_ERR_INVALID_CHARS == 8
\* code page identifier of UTF-8
CP_UTF8 == 65001
\* Win32 last-error codes
ERROR_SUCCESS == 0
ERROR_INVALID_PARAMETER == 87
ERROR_INSUFFICIENT_BUFFER == 122
ERROR_INVALID_FLAGS == 1004
ERROR_NO_UNICODE_TRANSLATION == 1113

\* the threads that call Utf16FromUtf8
Threads == {1, 2}

(***************************************************************************)
(* size_t.  TLC's integers are 32 bits wide, so a size_t is kept as two    *)
(* limbs: the value is hi * 2^16 + lo with 0 <= lo < 2^16.                 *)
(***************************************************************************)
Limb == 2 ^ 16

SizeT(hi, lo) == [hi |-> hi, lo |-> lo]

\* a size_t made from a small natural number
SizeOf(n) == SizeT(n \div Limb, n % Limb)

\* a > b on size_t values
SizeGreater(a, b) == a.hi > b.hi \/ (a.hi = b.hi /\ a.lo > b.lo)

\* static_cast<size_t>(i) for a non-negative int i
StaticCastSizeT(i) == SizeT(i \div Limb, i % Limb)

\* static_cast<int>(n): the low 32 bits of n, read as two's complement
StaticCastInt(n) ==
    LET h == n.hi % Limb
    IN  IF h >= Limb \div 2 THEN (h - Limb) * Limb + n.lo ELSE h * Limb + n.lo

(***************************************************************************)
(* std::string.  A string is its length and its bytes; the bytes are given *)
(* by a pattern repeated up to the length, so that a string longer than    *)
(* INT_MAX can be written down.  For every other input the pattern is the  *)
(* whole string.  data()[length()] is the terminating zero.                *)
(***************************************************************************)
String(pat, len) == [pat |-> pat, len |-> len]

\* the string holding exactly the bytes of the sequence b
Str(b) == String(b, SizeOf(Len(b)))

Length(s) == s.len

Empty(s) == s.len = SizeOf(0)

\* s.data()[i], 0 <= i < length
ByteAt(s, i) == s.pat[(i % Len(s.pat)) + 1]

\* the first n bytes at s.data(), n <= length + 1
Data(s, n) ==
    [i \in 1..n |-> IF SizeOf(i - 1) = s.len THEN 0 ELSE ByteAt(s, i - 1)]

\* strlen(s.data()): the index of the first zero byte, which is the length
\* for a string that holds none (such a string is shorter than 2^31 here)
StrLen(s) ==
    LET period == IF s.len.hi = 0 /\ s.len.lo < Len(s.pat) THEN s.len.lo ELSE Len(s.pat)
        zeros  == {i \in 0..(period - 1) : ByteAt(s, i) = 0}
    IN  IF zeros = {} THEN StaticCastInt(s.len)
        ELSE CHOOSE i \in zeros : \A j \in zeros : i <= j

(***************************************************************************)
(* UTF-8 decoding as MultiByteToWideChar(CP_UTF8) does it.                 *)
(***************************************************************************)
\* the length of the sequence a lead byte announces, 0 for a byte that is
\* no lead byte (a continuation byte 80..BF, or F8..FF)
SeqLength(b) ==
    IF b < 128 THEN 1
    ELSE IF b >= 192 /\ b < 224 THEN 2
    ELSE IF b >= 224 /\ b < 240 THEN 3
    ELSE IF b >= 240 /\ b < 248 THEN 4
    ELSE 0

IsContinuation(b) == b >= 128 /\ b < 192

\* the least scalar value that needs a sequence of n bytes
MinScalar(n) == IF n = 1 THEN 0 ELSE IF n = 2 THEN 128 ELSE IF n = 3 THEN 2048 ELSE 65536

\* the payload bits of the n-byte sequence at bytes[i]
Payload(bytes, i, n) ==
    IF n = 1 THEN bytes[i]
    ELSE IF n = 2 THEN (bytes[i] % 32) * 64 + (bytes[i + 1] % 64)
    ELSE IF n = 3 THEN (bytes[i] % 16) * 4096 + (bytes[i + 1] % 64) * 64 + (bytes[i + 2] % 64)
    ELSE (bytes[i] % 8) * 262144 + (bytes[i + 1] % 64) * 4096
         + (bytes[i + 2] % 64) * 64 + (bytes[i + 3] % 64)

\* the character that starts at bytes[i]: [ok, cp, n].  Not ok: no lead byte,
\* a truncated sequence, a missing continuation byte, an overlong form, a
\* surrogate D800..DFFF, or a value above 10FFFF.
DecodeAt(bytes, i) ==
    LET n == SeqLength(bytes[i])
    IN  IF n = 0 \/ i + n - 1 > Len(bytes)
          \/ \E k \in 1..(n - 1) : ~IsContinuation(bytes[i + k])
        THEN [ok |-> FALSE, cp |-> 0, n |-> 1]
        ELSE LET cp == Payload(bytes, i, n)
             IN  [ok |-> /\ cp >= MinScalar(n)
                         /\ ~(cp >= 55296 /\ cp <= 57343)
                         /\ cp <= 1114111,
                  cp |-> cp, n |-> n]

\* the UTF-16 code units of a scalar value
Utf16Units(cp) ==
    IF cp < 65536 THEN <<cp>>
    ELSE <<55296 + ((cp - 65536) \div 1024), 56320 + ((cp - 65536) % 1024)>>

\* the conversion of bytes[i..]: [ok, units].  dwFlags is the set of the flags
\* given.  With MB_ERR_INVALID_CHARS an
\* invalid character fails the conversion; without it the character is
\* replaced by U+FFFD.
RECURSIVE DecodeFrom(_, _, _)
DecodeFrom(bytes, i, dwFlags) ==
    IF i > Len(bytes) THEN [ok |-> TRUE, units |-> <<>>]
    ELSE LET c == DecodeAt(bytes, i)
         IN  IF ~c.ok /\ MB_ERR_INVALID_CHARS \in dwFlags
             THEN [ok |-> FALSE, units |-> <<>>]
             ELSE LET rest == DecodeFrom(bytes, i + c.n, dwFlags)
                      head == IF c.ok THEN Utf16Units(c.cp) ELSE <<65533>>
                  IN  [ok |-> rest.ok, units |-> head \o rest.units]

\* an optional value: absent, or present with value v
None == <<>>
Some(v) == <<v>>
Get(o) == o[1]

\* a destination pointer: nullptr, or the start of the buffer buf
NullBuffer == [null |-> TRUE, buf |-> <<>>]
Buffer(buf) == [null |-> FALSE, buf |-> buf]

(***************************************************************************)
(* MultiByteToWideChar(CodePage, dwFlags, src, cbMultiByte, dst,           *)
(* cchWideChar): [ret, err, out], the returned int, the last-error code it *)
(* sets (None on success) and the destination buffer after the call.       *)
(***************************************************************************)
MultiByteToWideChar(CodePage, dwFlags, src, cbMultiByte, dst, cchWideChar) ==
    IF CodePage # CP_UTF8 \/ ~(dwFlags \subseteq {MB_ERR_INVALID_CHARS})
    THEN [ret |-> 0, err |-> Some(ERROR_INVALID_FLAGS), out |-> dst.buf]
    ELSE IF cbMultiByte = 0 \/ (cchWideChar # 0 /\ dst.null) \/ cchWideChar < 0
    THEN [ret |-> 0, err |-> Some(ERROR_INVALID_PARAMETER), out |-> dst.buf]
    ELSE LET \* a negative count: the source is read up to and with its first zero
             n == IF cbMultiByte < 0 THEN StrLen(src) + 1 ELSE cbMultiByte
             d == DecodeFrom(Data(src, n), 1, dwFlags)
             m == Len(d.units)
         IN  IF ~d.ok
             THEN [ret |-> 0, err |-> Some(ERROR_NO_UNICODE_TRANSLATION), out |-> dst.buf]
             ELSE IF cchWideChar = 0
             THEN [ret |-> m, err |-> None, out |-> dst.buf]
             ELSE IF cchWideChar < m
             THEN [ret |-> 0, err |-> Some(ERROR_INSUFFICIENT_BUFFER), out |-> dst.buf]
             ELSE [ret |-> m, err |-> None,
                   out |-> [k \in 1..Len(dst.buf) |->
                               IF k <= m THEN d.units[k] ELSE dst.buf[k]]]

(***************************************************************************)
(* The state: for every thread, its place in Utf16FromUtf8, the argument   *)
(* and the local variables of the call, and what the call handed to its    *)
(* caller.  lastError is the Win32 last-error value, one slot per thread.  *)
(***************************************************************************)
VARIABLES
    pc,            \* the statement each thread is at
    utf8,          \* the argument of the call
    utf16,         \* the local std::wstring utf16
    utf8Length,    \* the local int utf8Length
    utf16Length,   \* the local int utf16Length
    result,        \* the local int result
    lastError,     \* what GetLastError() returns, per slot
    outcome,       \* what the call gave its caller: a value or an exception
    steps,         \* history: the statements the call has executed
    prim,          \* history: what each call of the primitive answered the call
    between,       \* history: another thread called the primitive between this
                   \* thread's failing call and its GetLastError()
    memo           \* history: one earlier call, its input and its outcome

vars == <<pc, utf8, utf16, utf8Length, utf16Length, result, lastError,
          outcome, steps, prim, between, memo>>

\* the call has not ended
NoOutcome == [returned |-> None, thrown |-> None]

\* return utf16;
Returns(value) == [returned |-> Some(value), thrown |-> None]

\* a throw that would leave the local buffer with the caller
ThrowsKeepingLocal(local, e) == [returned |-> Some(local), thrown |-> Some(e)]

\* throw e; the local utf16 is destroyed while the stack unwinds
Throws(local, e) == [returned |-> None, thrown |-> Some(e)]

\* std::overflow_error(message): it carries no error code
OverflowError(message) ==
    [type |-> "std::overflow_error", what |-> message, code |-> None]

\* Utf16FromUtf8ConversionError(message, errorCode)
Utf16FromUtf8ConversionError(message, errorCode) ==
    [type |-> "Utf16FromUtf8ConversionError", what |-> message, code |-> Some(errorCode)]

MsgTooLong == "Input string too long: size_t-length doesn't fit into int."
MsgInvalid == "Invalid UTF-8 sequence found in input string."
MsgMeasure == "Cannot get result string length when converting from UTF-8 to UTF-16 (MultiByteToWideChar failed)."
MsgConvert == "Cannot convert from UTF-8 to UTF-16 (MultiByteToWideChar failed)."

\* no flag: the primitive replaces what it cannot convert
kFlagsNone == {}

\* const DWORD kFlags = MB_ERR_INVALID_CHARS;
kFlags == {MB_ERR_INVALID_CHARS}

\* the comparison made after the length was narrowed to int
TooLongAfterCast(s) == StaticCastInt(Length(s)) > INT_MAX

\* if (utf8.empty()), never taken
IsEmptyInputNever(t) == FALSE

\* if (utf8.empty())
IsEmptyInput(t) == Empty(utf8[t])

\* utf8.length() > static_cast<size_t>((std::numeric_limits<int>::max)())
TooLong(s) == SizeGreater(Length(s), StaticCastSizeT(INT_MAX))

\* one last-error slot for the whole process
SlotOfProcess(t) == 1

\* the last-error slot of a thread: the value is thread-local
Slot(t) == t

GetLastError(t) == lastError[Slot(t)]

\* the last-error values after thread t's call of the primitive set err
SetLastError(t, err) ==
    IF err = None THEN lastError ELSE [lastError EXCEPT ![Slot(t)] = Get(err)]

\* a failure test that also looks at the last-error value
MeasureFailedOrLastError(t) == utf16Length[t] = 0 \/ GetLastError(t) # ERROR_SUCCESS

\* if (utf16Length == 0)
MeasureFailed(t) == utf16Length[t] = 0

\* a failure test for a negative result
FillFailedNegative(t) == result[t] < 0

\* if (result == 0)
FillFailed(t) == result[t] = 0

\* a resize with room for a terminating zero
ResizedWithTerminator(n) == [k \in 1..(n + 1) |-> 0]

\* utf16.resize(utf16Length): the new elements are value-initialised
ResizedTo(n) == [k \in 1..n |-> 0]

\* the length -1, which lets the primitive look for the terminating zero
SourceLengthCString(t) == -1

\* the length handed to both calls of the primitive
SourceLength(t) == utf8Length[t]

\* a buffer size one short of the measured length
BufferSizeShort(t) == utf16Length[t] - 1

\* the buffer size handed to the fill call
BufferSize(t) == utf16Length[t]

Step(t, name) == steps' = [steps EXCEPT ![t] = Append(@, name)]

\* thread t is between a failing call of the primitive and its GetLastError()
AwaitsError(t) ==
    \/ pc[t] = "MeasureCheck" /\ utf16Length[t] = 0
    \/ pc[t] = "FillCheck" /\ result[t] = 0

\* history of thread t's call of the primitive, which answered ret and err
Called(t, ret, err) ==
    /\ prim' = [prim EXCEPT ![t] = Append(@, [ret |-> ret, err |-> err])]
    /\ between' = [u \in Threads |-> between[u] \/ (u # t /\ AwaitsError(u))]

TypeOK ==
    /\ pc \in [Threads -> {"idle", "EmptyCheck", "LengthCheck", "Measure", "MeasureCheck",
                           "Resize", "Fill", "FillCheck", "done"}]
    /\ \A t \in Threads : utf8Length[t] \in Int /\ utf16Length[t] \in Int /\ result[t] \in Int

Init ==
    /\ pc = [t \in Threads |-> "idle"]
    /\ utf8 = [t \in Threads |-> Str(<<>>)]
    /\ utf16 = [t \in Threads |-> <<>>]
    /\ utf8Length = [t \in Threads |-> 0]
    /\ utf16Length = [t \in Threads |-> 0]
    /\ result = [t \in Threads |-> 0]
    /\ lastError = [t \in Threads |-> ERROR_SUCCESS]
    /\ outcome = [t \in Threads |-> NoOutcome]
    /\ steps = [t \in Threads |-> <<>>]
    /\ prim = [t \in Threads |-> <<>>]
    /\ between = [t \in Threads |-> FALSE]
    /\ memo = None

\* a caller calls Utf16FromUtf8(s) with an s of inputs; std::wstring utf16;
Call(t, inputs) ==
    /\ pc[t] = "idle"
    /\ pc' = [pc EXCEPT ![t] = "EmptyCheck"]
    /\ \E s \in inputs : utf8' = [utf8 EXCEPT ![t] = s]
    /\ utf16' = [utf16 EXCEPT ![t] = <<>>]
    /\ UNCHANGED <<utf8Length, utf16Length, result, lastError, outcome, steps, prim, between, memo>>

\* if (utf8.empty()) return utf16;
EmptyCheck(t) ==
    /\ pc[t] = "EmptyCheck"
    /\ Step(t, "EmptyCheck")
    /\ IF IsEmptyInput(t)
       THEN /\ outcome' = [outcome EXCEPT ![t] = Returns(utf16[t])]
            /\ pc' = [pc EXCEPT ![t] = "done"]
       ELSE /\ pc' = [pc EXCEPT ![t] = "LengthCheck"]
            /\ UNCHANGED outcome
    /\ UNCHANGED <<utf8, utf16, utf8Length, utf16Length, result, lastError, prim, between, memo>>

\* if (utf8.length() > INT_MAX) throw std::overflow_error(...);
\* const int utf8Length = static_cast<int>(utf8.length());
LengthCheck(t) ==
    /\ pc[t] = "LengthCheck"
    /\ Step(t, "LengthCheck")
    /\ IF TooLong(utf8[t])
       THEN /\ outcome' = [outcome EXCEPT ![t] = Throws(utf16[t], OverflowError(MsgTooLong))]
            /\ pc' = [pc EXCEPT ![t] = "done"]
            /\ UNCHANGED utf8Length
       ELSE /\ utf8Length' = [utf8Length EXCEPT ![t] = StaticCastInt(Length(utf8[t]))]
            /\ pc' = [pc EXCEPT ![t] = "Measure"]
            /\ UNCHANGED outcome
    /\ UNCHANGED <<utf8, utf16, utf16Length, result, lastError, prim, between, memo>>

\* const int utf16Length = ::MultiByteToWideChar(CP_UTF8, kFlags, utf8.data(),
\*                                               utf8Length, nullptr, 0);
Measure(t) ==
    /\ pc[t] = "Measure"
    /\ Step(t, "Measure")
    /\ LET r == MultiByteToWideChar(CP_UTF8, kFlags, utf8[t], SourceLength(t), NullBuffer, 0)
       IN  /\ utf16Length' = [utf16Length EXCEPT ![t] = r.ret]
           /\ lastError' = SetLastError(t, r.err)
           /\ Called(t, r.ret, r.err)
    /\ pc' = [pc EXCEPT ![t] = "MeasureCheck"]
    /\ UNCHANGED <<utf8, utf16, utf8Length, result, outcome, memo>>

\* the measuring call fails for a reason of the platform, with error code c
MeasureFault(t, c) ==
    /\ pc[t] = "Measure"
    /\ Step(t, "Measure")
    /\ utf16Length' = [utf16Length EXCEPT ![t] = 0]
    /\ lastError' = SetLastError(t, Some(c))
    /\ Called(t, 0, Some(c))
    /\ pc' = [pc EXCEPT ![t] = "MeasureCheck"]
    /\ UNCHANGED <<utf8, utf16, utf8Length, result, outcome, memo>>

\* if (utf16Length == 0) { const DWORD error = ::GetLastError(); throw ...; }
MeasureCheck(t) ==
    /\ pc[t] = "MeasureCheck"
    /\ Step(t, "MeasureCheck")
    /\ IF MeasureFailed(t)
       THEN LET error == GetLastError(t)
            IN  /\ outcome' = [outcome EXCEPT ![t] =
                       Throws(utf16[t], Utf16FromUtf8ConversionError(
                           IF error = ERROR_NO_UNICODE_TRANSLATION THEN MsgInvalid
                           ELSE MsgMeasure, error))]
                /\ pc' = [pc EXCEPT ![t] = "done"]
       ELSE /\ pc' = [pc EXCEPT ![t] = "Resize"]
            /\ UNCHANGED outcome
    /\ UNCHANGED <<utf8, utf16, utf8Length, utf16Length, result, lastError, prim, between, memo>>

\* utf16.resize(utf16Length);
Resize(t) ==
    /\ pc[t] = "Resize"
    /\ Step(t, "Resize")
    /\ utf16' = [utf16 EXCEPT ![t] = ResizedTo(utf16Length[t])]
    /\ pc' = [pc EXCEPT ![t] = "Fill"]
    /\ UNCHANGED <<utf8, utf8Length, utf16Length, result, lastError, outcome, prim, between, memo>>

\* int result = ::MultiByteToWideChar(CP_UTF8, kFlags, utf8.data(), utf8Length,
\*                                    &utf16[0], utf16Length);
Fill(t) ==
    /\ pc[t] = "Fill"
    /\ Step(t, "Fill")
    /\ LET r == MultiByteToWideChar(CP_UTF8, kFlags, utf8[t], SourceLength(t),
                                    Buffer(utf16[t]), BufferSize(t))
       IN  /\ result' = [result EXCEPT ![t] = r.ret]
           /\ utf16' = [utf16 EXCEPT ![t] = r.out]
           /\ lastError' = SetLastError(t, r.err)
           /\ Called(t, r.ret, r.err)
    /\ pc' = [pc EXCEPT ![t] = "FillCheck"]
    /\ UNCHANGED <<utf8, utf8Length, utf16Length, outcome, memo>>

\* the filling call fails for a reason of the platform, with error code c
FillFault(t, c) ==
    /\ pc[t] = "Fill"
    /\ Step(t, "Fill")
    /\ result' = [result EXCEPT ![t] = 0]
    /\ lastError' = SetLastError(t, Some(c))
    /\ Called(t, 0, Some(c))
    /\ pc' = [pc EXCEPT ![t] = "FillCheck"]
    /\ UNCHANGED <<utf8, utf16, utf8Length, utf16Length, outcome, memo>>

\* if (result == 0) { const DWORD error = ::GetLastError(); throw ...; }
\* return utf16;
FillCheck(t) ==
    /\ pc[t] = "FillCheck"
    /\ Step(t, "FillCheck")
    /\ IF FillFailed(t)
       THEN LET error == GetLastError(t)
            IN  outcome' = [outcome EXCEPT ![t] =
                    Throws(utf16[t], Utf16FromUtf8ConversionError(
                        IF error = ERROR_NO_UNICODE_TRANSLATION THEN MsgInvalid
                        ELSE MsgConvert, error))]
       ELSE outcome' = [outcome EXCEPT ![t] = Returns(utf16[t])]
    /\ pc' = [pc EXCEPT ![t] = "done"]
    /\ UNCHANGED <<utf8, utf16, utf8Length, utf16Length, result, lastError, prim, between, memo>>

\* the locals of a call that has ended
Ended(t) ==
    /\ pc' = [pc EXCEPT ![t] = "idle"]
    /\ utf8' = [utf8 EXCEPT ![t] = Str(<<>>)]
    /\ utf16' = [utf16 EXCEPT ![t] = <<>>]
    /\ utf8Length' = [utf8Length EXCEPT ![t] = 0]
    /\ utf16Length' = [utf16Length EXCEPT ![t] = 0]
    /\ result' = [result EXCEPT ![t] = 0]
    /\ outcome' = [outcome EXCEPT ![t] = NoOutcome]
    /\ steps' = [steps EXCEPT ![t] = <<>>]
    /\ prim' = [prim EXCEPT ![t] = <<>>]
    /\ between' = [between EXCEPT ![t] = FALSE]

\* the caller takes the outcome of the call (main: std::wcout << ...)
Return(t) ==
    /\ pc[t] = "done"
    /\ Ended(t)
    /\ UNCHANGED <<lastError, memo>>

\* the same, and the call is the one remembered for a later comparison
ReturnRemember(t) ==
    /\ pc[t] = "done"
    /\ Ended(t)
    /\ memo' = Some([in |-> utf8[t], out |-> outcome[t]])
    /\ UNCHANGED lastError

\* between two conversions the caller calls other functions of the platform
\* (main: _setmode, operator<<), which may set the last-error value
HostSetsLastError(t, c) ==
    /\ pc[t] = "idle"
    /\ lastError[Slot(t)] # c
    /\ lastError' = [lastError EXCEPT ![Slot(t)] = c]
    /\ UNCHANGED <<pc, utf8, utf16, utf8Length, utf16Length, result, outcome, steps,
                   prim, between, memo>>

(***************************************************************************)
(* The inputs.                                                             *)
(***************************************************************************)
\* bytes of every class of UTF-8: ASCII (00, 41), continuation bytes
\* (80, 90, 97, A0), lead bytes of two (C0, C2), three (E0, E6, ED) and four
\* (F0, F4) bytes, and a byte that occurs in no UTF-8 text (FF)
Alphabet == {0, 65, 128, 144, 151, 160, 192, 194, 224, 230, 237, 240, 244, 255}

SeqsUpTo(A, n) == UNION {[1..k -> A] : k \in 0..n}

\* main: "Japan", and uint8_t utf8[] = { E6 97 A5 E6 9C AC 00 } as a C string
JapanAscii == <<74, 97, 112, 97, 110>>
JapanUtf8 == <<230, 151, 165, 230, 156, 172>>

\* longer inputs: the two of main, a character outside the BMP (U+1F600) alone
\* and between others, zero bytes around a character, and ill-formed ones
LongInputs ==
    { JapanAscii, JapanUtf8,
      <<240, 159, 152, 128>>, <<65, 240, 159, 152, 128, 194, 169>>,
      <<244, 143, 191, 191>>, <<0, 230, 151, 165, 0, 65, 0>>,
      <<240, 128, 128, 128>>, <<244, 144, 128, 128>>, <<237, 160, 128, 237, 176, 128>>,
      <<230, 151, 165, 230, 156>>, <<65, 66, 67, 255>>, <<248, 136, 128, 128, 128>> }

\* inputs longer than INT_MAX: 2^31, 2^32 and 2^32 + 2 bytes
HugeInputs ==
    { String(<<65, 0>>, SizeT(2 ^ 15, 0)),
      String(<<0>>, SizeT(2 ^ 16, 0)),
      String(<<65, 0>>, SizeT(2 ^ 16, 2)) }

Inputs ==
    {Str(b) : b \in SeqsUpTo(Alphabet, MaxLen)} \cup {Str(b) : b \in LongInputs}
        \cup HugeInputs

RepeatInputs == {Str(b) : b \in SeqsUpTo({65, 128, 194, 255}, MaxRepeatLen)}

ConcInputs == {Str(b) : b \in SeqsUpTo({65, 255}, MaxConcLen)} \cup {String(<<65, 0>>, SizeT(2 ^ 15, 0))}

\* the error codes a failing call of the primitive may set
FaultCodes == {ERROR_INVALID_FLAGS, ERROR_INSUFFICIENT_BUFFER, ERROR_NO_UNICODE_TRANSLATION}

\* the last-error values other functions leave behind
HostCodes == {ERROR_SUCCESS, ERROR_INVALID_PARAMETER, ERROR_NO_UNICODE_TRANSLATION}

(***************************************************************************)
(* Spec: one thread converts one input after another; the primitive        *)
(* behaves as documented.                                                  *)
(***************************************************************************)
Next ==
    \/ Call(1, Inputs)
    \/ EmptyCheck(1)
    \/ LengthCheck(1)
    \/ Measure(1)
    \/ MeasureCheck(1)
    \/ Resize(1)
    \/ Fill(1)
    \/ FillCheck(1)
    \/ Return(1)

Spec == Init /\ [][Next]_vars

(***************************************************************************)
(* SpecRepeat: one thread converts one input after another, the caller     *)
(* disturbs the last-error value between the calls, and one earlier call   *)
(* is remembered.                                                          *)
(***************************************************************************)
NextRepeat ==
    \/ Call(1, RepeatInputs)
    \/ EmptyCheck(1)
    \/ LengthCheck(1)
    \/ Measure(1)
    \/ MeasureCheck(1)
    \/ Resize(1)
    \/ Fill(1)
    \/ FillCheck(1)
    \/ Return(1)
    \/ ReturnRemember(1)
    \/ \E c \in HostCodes : HostSetsLastError(1, c)

SpecRepeat == Init /\ [][NextRepeat]_vars

(***************************************************************************)
(* SpecConc: two threads convert concurrently, one statement at a time in  *)
(* any order, and a call of the primitive may fail for a reason of the     *)
(* platform.                                                               *)
(***************************************************************************)
NextConc ==
    \E t \in Threads :
        \/ Call(t, ConcInputs)
        \/ EmptyCheck(t)
        \/ LengthCheck(t)
        \/ Measure(t)
        \/ \E c \in FaultCodes : MeasureFault(t, c)
        \/ MeasureCheck(t)
        \/ Resize(t)
        \/ Fill(t)
        \/ \E c \in FaultCodes : FillFault(t, c)
        \/ FillCheck(t)
        \/ Return(t)

SpecConc == Init /\ [][NextConc]_vars

(***************************************************************************)
(* The encodings as the Unicode Standard defines them, for stating the     *)
(* properties: well-formed UTF-8 by the byte ranges of its Table 3-7, and  *)
(* the text a UTF-16 sequence holds, encoded again as UTF-8.               *)
(***************************************************************************)
Within(b, lo, hi) == lo <= b /\ b <= hi

\* the length of the well-formed byte sequence at b[i], 0 when there is none
WellFormedLength(b, i) ==
    LET at(k) == IF i + k <= Len(b) THEN b[i + k] ELSE 256
        tail(k) == Within(at(k), 128, 191)
    IN  IF Within(at(0), 0, 127) THEN 1
        ELSE IF Within(at(0), 194, 223) /\ tail(1) THEN 2
        ELSE IF at(0) = 224 /\ Within(at(1), 160, 191) /\ tail(2) THEN 3
        ELSE IF Within(at(0), 225, 236) /\ tail(1) /\ tail(2) THEN 3
        ELSE IF at(0) = 237 /\ Within(at(1), 128, 159) /\ tail(2) THEN 3
        ELSE IF Within(at(0), 238, 239) /\ tail(1) /\ tail(2) THEN 3
        ELSE IF at(0) = 240 /\ Within(at(1), 144, 191) /\ tail(2) /\ tail(3) THEN 4
        ELSE IF Within(at(0), 241, 243) /\ tail(1) /\ tail(2) /\ tail(3) THEN 4
        ELSE IF at(0) = 244 /\ Within(at(1), 128, 143) /\ tail(2) /\ tail(3) THEN 4
        ELSE 0

RECURSIVE WellFormedFrom(_, _)
WellFormedFrom(b, i) ==
    IF i > Len(b) THEN TRUE
    ELSE LET n == WellFormedLength(b, i)
         IN  n # 0 /\ WellFormedFrom(b, i + n)

WellFormedUtf8(b) == WellFormedFrom(b, 1)

\* the scalar values of the UTF-16 sequence u[i..]: [ok, scalars]; a
\* surrogate that is not half of a pair makes it not ok
RECURSIVE ScalarsFrom(_, _)
ScalarsFrom(u, i) ==
    IF i > Len(u) THEN [ok |-> TRUE, scalars |-> <<>>]
    ELSE IF Within(u[i], 55296, 56319)
    THEN IF i + 1 <= Len(u) /\ Within(u[i + 1], 56320, 57343)
         THEN LET rest == ScalarsFrom(u, i + 2)
              IN  [ok |-> rest.ok,
                   scalars |-> <<65536 + (u[i] - 55296) * 1024 + (u[i + 1] - 56320)>>
                               \o rest.scalars]
         ELSE [ok |-> FALSE, scalars |-> <<>>]
    ELSE IF Within(u[i], 56320, 57343) THEN [ok |-> FALSE, scalars |-> <<>>]
    ELSE LET rest == ScalarsFrom(u, i + 1)
         IN  [ok |-> rest.ok /\ Within(u[i], 0, 65535), scalars |-> <<u[i]>> \o rest.scalars]

\* the UTF-8 bytes of a scalar value
Utf8Of(cp) ==
    IF cp < 128 THEN <<cp>>
    ELSE IF cp < 2048 THEN <<192 + (cp \div 64), 128 + (cp % 64)>>
    ELSE IF cp < 65536
    THEN <<224 + (cp \div 4096), 128 + ((cp \div 64) % 64), 128 + (cp % 64)>>
    ELSE <<240 + (cp \div 262144), 128 + ((cp \div 4096) % 64),
           128 + ((cp \div 64) % 64), 128 + (cp % 64)>>

RECURSIVE Utf8OfAll(_)
Utf8OfAll(scalars) ==
    IF scalars = <<>> THEN <<>> ELSE Utf8Of(Head(scalars)) \o Utf8OfAll(Tail(scalars))

\* u is the UTF-16 encoding of the text whose UTF-8 encoding is b
IsUtf16Of(u, b) ==
    LET d == ScalarsFrom(u, 1)
    IN  d.ok /\ Utf8OfAll(d.scalars) = b

\* the number of UTF-16 code units of the characters that start before b[i]:
\* one for every byte that starts a character, one more for a lead byte of four
UnitsBefore(b, i) ==
    Cardinality({k \in 1..(i - 1) : ~Within(b[k], 128, 191)})
        + Cardinality({k \in 1..(i - 1) : b[k] >= 240})

\* the input of thread t is written out in full, and its bytes
Short(t) == utf8[t].len.hi = 0 /\ utf8[t].len.lo = Len(utf8[t].pat)
Bytes(t) == utf8[t].pat

\* the input of thread t is longer than the largest signed 32-bit value
Oversized(t) == utf8[t].len.hi >= 2 ^ 15

\* the kind of failure an exception stands for
Kind(e) ==
    IF e.type = "std::overflow_error" THEN "InputTooLarge"
    ELSE IF e.what = MsgInvalid THEN "InvalidUtf8Sequence"
    ELSE IF e.what = MsgMeasure THEN "MeasurementFailed"
    ELSE IF e.what = MsgConvert THEN "ConversionFailed"
    ELSE "unknown"

Done(t) == pc[t] = "done"
Returned(t) == outcome[t].returned # None
Threw(t) == outcome[t].thrown # None
Value(t) == Get(outcome[t].returned)
Exception(t) == Get(outcome[t].thrown)
Did(t, name) == \E k \in 1..Len(steps[t]) : steps[t][k] = name

(***************************************************************************)
(* The properties.                                                         *)
(***************************************************************************)

\* C1: a call that has ended has handed its caller either a value or an
\* exception, never both and never neither; so with an exception, thrown at
\* the length check, after the measuring call or after the filling call,
\* there is no output sequence, and a call that has not ended has handed over
\* nothing.
C1_ValueOrException ==
    \A t \in Threads :
        /\ Done(t) => (Returned(t) /\ ~Threw(t)) \/ (Threw(t) /\ ~Returned(t))
        /\ ~Done(t) => ~Returned(t) /\ ~Threw(t)

\* an exception thrown after the buffer was resized and filled in part
C1_Witness ==
    \E t \in Threads :
        /\ Done(t) /\ Threw(t) /\ ~Returned(t)
        /\ Did(t, "Resize") /\ utf16[t] # <<>>

\* C2: for a well-formed UTF-8 input no longer than INT_MAX the call returns,
\* and returns the UTF-16 encoding of the input's text and no unit more: the
\* bytes themselves for an ASCII input, and 65E5 672C for E6 97 A5 E6 9C AC.
C2_WellFormedConverts ==
    \A t \in Threads :
        Done(t) /\ Short(t) /\ WellFormedUtf8(Bytes(t)) =>
            /\ Returned(t) /\ ~Threw(t)
            /\ IsUtf16Of(Value(t), Bytes(t))
            /\ Len(Value(t)) = UnitsBefore(Bytes(t), Len(Bytes(t)) + 1)
            /\ (\A k \in 1..Len(Bytes(t)) : Bytes(t)[k] < 128) => Value(t) = Bytes(t)
            /\ Bytes(t) = JapanUtf8 => Value(t) = <<26085, 26412>>

\* A, U+1F600 and U+00A9 give 0041, the pair D83D DE00, and 00A9
C2_Witness ==
    \E t \in Threads :
        /\ Done(t)
        /\ utf8[t] = Str(<<65, 240, 159, 152, 128, 194, 169>>)
        /\ outcome[t] = Returns(<<65, 55357, 56832, 169>>)

\* C3: for a non-empty input no longer than INT_MAX that is not well-formed
\* UTF-8 the call throws the error of an invalid UTF-8 sequence and returns
\* nothing.
C3_IllFormedRejected ==
    \A t \in Threads :
        Done(t) /\ Short(t) /\ Bytes(t) # <<>> /\ ~WellFormedUtf8(Bytes(t)) =>
            /\ Threw(t) /\ ~Returned(t)
            /\ Kind(Exception(t)) = "InvalidUtf8Sequence"

\* the surrogate pair D800 DC00 written as two three-byte sequences
C3_Witness ==
    \E t \in Threads :
        /\ Done(t)
        /\ utf8[t] = Str(<<237, 160, 128, 237, 176, 128>>)
        /\ Threw(t) /\ Kind(Exception(t)) = "InvalidUtf8Sequence"

\* C4: for an input longer than INT_MAX the call throws the error of a too
\* long input, which carries no error code, and the primitive was not called.
C4_TooLargeRejected ==
    \A t \in Threads :
        Done(t) /\ Oversized(t) =>
            /\ Threw(t) /\ ~Returned(t)
            /\ Kind(Exception(t)) = "InputTooLarge"
            /\ Exception(t).code = None
            /\ prim[t] = <<>>
            /\ ~Did(t, "Measure") /\ ~Did(t, "Fill")

\* an input of 2^32 + 2 bytes, whose length narrowed to int is 2
C4_Witness ==
    \E t \in Threads :
        /\ Done(t)
        /\ utf8[t] = String(<<65, 0>>, SizeT(2 ^ 16, 2))
        /\ Threw(t) /\ Kind(Exception(t)) = "InputTooLarge"

\* C5: for the empty input the call returns the empty sequence after the
\* empty check alone, before the length check and any call of the primitive;
\* and the result of the measuring call is tested for a non-empty input only.
C5_EmptyInput ==
    \A t \in Threads :
        /\ Done(t) /\ utf8[t].len = SizeT(0, 0) =>
               /\ outcome[t] = Returns(<<>>)
               /\ steps[t] = <<"EmptyCheck">>
               /\ prim[t] = <<>>
        /\ pc[t] = "MeasureCheck" => utf8[t].len # SizeT(0, 0)

C5_Witness ==
    \E t \in Threads :
        Done(t) /\ utf8[t].len = SizeT(0, 0) /\ outcome[t] = Returns(<<>>)

\* C6: for a well-formed input every zero byte gives the code unit 0000 at
\* the place of its character, and the output holds the units of all the
\* characters of the input, those after a zero byte too.
C6_ZeroBytesKept ==
    \A t \in Threads :
        Done(t) /\ Short(t) /\ WellFormedUtf8(Bytes(t)) =>
            /\ Returned(t)
            /\ Len(Value(t)) = UnitsBefore(Bytes(t), Len(Bytes(t)) + 1)
            /\ \A i \in 1..Len(Bytes(t)) :
                   Bytes(t)[i] = 0 => Value(t)[UnitsBefore(Bytes(t), i) + 1] = 0
            /\ Cardinality({k \in 1..Len(Value(t)) : Value(t)[k] = 0})
                   = Cardinality({i \in 1..Len(Bytes(t)) : Bytes(t)[i] = 0})

\* zero bytes first, in the middle and last
C6_Witness ==
    \E t \in Threads :
        /\ Done(t)
        /\ utf8[t] = Str(<<0, 230, 151, 165, 0, 65, 0>>)
        /\ outcome[t] = Returns(<<0, 26085, 0, 65, 0>>)

\* the answer of the call's latest call of the primitive
LatestAnswer(t) == prim[t][Len(prim[t])]

\* C7: a call whose measuring call answered 0 throws: the error of an invalid
\* sequence when the error the call set is ERROR_NO_UNICODE_TRANSLATION, the
\* error of a failed measurement otherwise; a call whose filling call
\* answered 0 throws likewise, with the error of a failed conversion; the
\* exception carries the code that failing call set; and every exception is
\* of one of four kinds.
C7_ErrorClassification ==
    \A t \in Threads :
        Done(t) =>
            /\ Len(prim[t]) >= 1 /\ LatestAnswer(t).ret = 0 =>
                   /\ Threw(t)
                   /\ Exception(t).code = LatestAnswer(t).err
                   /\ Kind(Exception(t)) =
                          IF LatestAnswer(t).err = Some(ERROR_NO_UNICODE_TRANSLATION)
                          THEN "InvalidUtf8Sequence"
                          ELSE IF Len(prim[t]) = 1 THEN "MeasurementFailed"
                          ELSE "ConversionFailed"
            /\ Threw(t) =>
                   /\ Kind(Exception(t)) \in {"InputTooLarge", "InvalidUtf8Sequence",
                                              "MeasurementFailed", "ConversionFailed"}
                   /\ Kind(Exception(t)) # "InputTooLarge" =>
                          Len(prim[t]) >= 1 /\ LatestAnswer(t).ret = 0

\* a failed filling call whose error is not that of an invalid sequence
C7_Witness ==
    \E t \in Threads :
        /\ Done(t) /\ Threw(t)
        /\ Len(prim[t]) = 2
        /\ Kind(Exception(t)) = "ConversionFailed"
        /\ Exception(t).code = Some(ERROR_INSUFFICIENT_BUFFER)

\* two outcomes are the same: the same sequence, or errors of the same kind
SameOutcome(a, b) ==
    /\ a.returned = b.returned
    /\ (a.thrown = None) = (b.thrown = None)
    /\ a.thrown # None => Kind(Get(a.thrown)) = Kind(Get(b.thrown))

\* C8: a call with the input of an earlier call ends as that call ended, with
\* the same output sequence or with an error of the same kind, whatever calls
\* were made and whatever the last-error value became in between.
C8_Deterministic ==
    \A t \in Threads :
        Done(t) /\ memo # None /\ Get(memo).in = utf8[t] =>
            SameOutcome(Get(memo).out, outcome[t])

\* the input of the remembered call converted again, while the last-error
\* value is one that the caller's other calls left behind
C8_Witness ==
    \E t \in Threads :
        /\ Done(t) /\ memo # None /\ Get(memo).in = utf8[t]
        /\ Returned(t) /\ Value(t) # <<>>
        /\ lastError[t] = ERROR_INVALID_PARAMETER

\* what a call with input utf8[t] gives when it runs alone and the primitive
\* answers it what prim[t] records
AloneOutcomeIs(t, o) ==
    IF utf8[t].len = SizeT(0, 0) THEN o = Returns(<<>>)
    ELSE IF Oversized(t) THEN o = Throws(<<>>, OverflowError(MsgTooLong))
    ELSE IF prim[t][1].ret = 0
    THEN o = Throws(<<>>, Utf16FromUtf8ConversionError(
                 IF prim[t][1].err = Some(ERROR_NO_UNICODE_TRANSLATION) THEN MsgInvalid
                 ELSE MsgMeasure, Get(prim[t][1].err)))
    ELSE IF prim[t][2].ret = 0
    THEN o = Throws(<<>>, Utf16FromUtf8ConversionError(
                 IF prim[t][2].err = Some(ERROR_NO_UNICODE_TRANSLATION) THEN MsgInvalid
                 ELSE MsgConvert, Get(prim[t][2].err)))
    ELSE /\ o.thrown = None /\ o.returned # None
         /\ IsUtf16Of(Get(o.returned), Bytes(t))

\* C9: with two threads converting at the same time, in every interleaving of
\* their statements, each call ends as it would alone: with the output of its
\* own input, or with the error kind and code of its own failing call.
C9_ThreadsIndependent ==
    \A t \in Threads : Done(t) => AloneOutcomeIs(t, outcome[t])

\* a call that failed with one code while the other thread made a call of
\* the primitive, failing with another code, before the first read its code
C9_Witness ==
    \E t, u \in Threads :
        /\ t # u /\ Done(t) /\ Threw(t) /\ between[t]
        /\ Exception(t).code = Some(ERROR_NO_UNICODE_TRANSLATION)
        /\ lastError[u] = ERROR_INVALID_FLAGS

\* C10: after a measuring call that answered n > 0 the buffer holds n units,
\* the filling call does not fail and writes n units, so the call returns a
\* sequence of exactly the n written units and throws neither the error of a
\* failed conversion nor, after the fill, that of an invalid sequence.
C10_FillCannotFail ==
    \A t \in Threads :
        /\ pc[t] \in {"Fill", "FillCheck"} =>
               utf16Length[t] > 0 /\ Len(utf16[t]) = utf16Length[t]
        /\ pc[t] = "FillCheck" => result[t] = utf16Length[t]
        /\ Done(t) /\ Did(t, "Fill") =>
               /\ Returned(t) /\ ~Threw(t)
               /\ Len(Value(t)) = utf16Length[t]
               /\ result[t] = utf16Length[t]
        /\ Done(t) /\ Threw(t) => Kind(Exception(t)) # "ConversionFailed"

\* the two units of the second input of main, measured and then filled
C10_Witness ==
    \E t \in Threads :
        /\ Done(t) /\ Did(t, "Fill")
        /\ utf8[t] = Str(JapanUtf8)
        /\ utf16Length[t] = 2 /\ result[t] = 2
        /\ Value(t) = <<26085, 26412>>

====
